---- MODULE Spec2Model ----
(***************************************************************************)
(* Model of the PostgreSQL data store of the Bitcoin indexer               *)
(* (src/src/db/pg.rs): the bulk query builders, the four-stage writer      *)
(* pipeline with its rendezvous channels, the batch aggregator, the        *)
(* in-flight registry, the recovery truncator and the DataStore calls.     *)
(*                                                                         *)
(* Representation.  A Vec<T> of the program is a sequence of runs: a run   *)
(* [first, n, ...] stands for n consecutive records, the k-th of which     *)
(* (k = 0..n-1) has position first + k in its block (or, for a run of      *)
(* blocks, height first + k).  A block of 100,000 transactions is then     *)
(* one run, and slicing, bisecting, inserting and deleting act on runs     *)
(* exactly as the code acts on the records they stand for.                 *)
(*   A transaction is identified by (height, i): the i-th transaction of   *)
(* the block at that height (i = 1 is the coinbase); it has one output,    *)
(* at vout 0, so an outpoint is named by the same pair.                    *)
(*   A 32-byte hash has two byte orders; a stored or printed hash carries  *)
(* its order in the field ord ("int" = in-memory, "hex" = reversed,        *)
(* as Display prints it and as the backend stores it).                     *)
(***************************************************************************)
EXTENDS Integers, Sequences, FiniteSets, TLC

VARIABLES
    db,                 \* the backend: tables blocks, txs, outputs, inputs and their id sequences
    up,                 \* TRUE while a Postresql value (a process) exists
    cached_max_height,  \* Postresql.cached_max_height  (None = NoHeight)
    pipeline,           \* Postresql.pipeline: "Some" | "None"
    batch,              \* Postresql.batch: Vec<BlockInfo>
    batch_txs_total,    \* Postresql.batch_txs_total
    batch_id,           \* Postresql.batch_id
    bulk_mode,          \* Postresql.bulk_mode
    in_flight,          \* BlocksInFlight: height -> hash, as a set of heights
    mode,               \* the PipelineMode the running pipeline was built with
    tx_open,            \* Pipeline.tx is Some (the ingress sender is not dropped)
    pc,                 \* per worker thread: where it stands
    msg,                \* per worker thread: the message it holds
    next_id,            \* per worker thread: its cached next surrogate id
    utxo_set_cache,     \* UtxoSetCache.entries, a set of runs
    main,               \* the caller's thread: the call in progress and where it stands
    ret,                \* the value the last completed DataStore call returned
    hist,               \* history: the process (epoch), the batches it handed to the pipeline
                        \* and the batches each stage received (done)
    budget,             \* history: how many restarts and backend errors are still to come
    qb                  \* the query-builder harness: builder, input slice, output

vars == << db, up, cached_max_height, pipeline, batch, batch_txs_total, batch_id,
           bulk_mode, in_flight, mode, tx_open, pc, msg, next_id, utxo_set_cache,
           main, ret, hist, budget, qb >>

storeVars == << db, up, cached_max_height, pipeline, batch, batch_txs_total, batch_id,
                bulk_mode, in_flight, mode, tx_open, pc, msg, next_id, utxo_set_cache,
                main, ret, hist, budget >>

(***************************************************************************)
(* Bounds of the model and constants of the program.                       *)
(***************************************************************************)
MaxHeight == 2          \* blocks have heights 0..MaxHeight
MaxApiHeight == 1       \* ... 0..MaxApiHeight under SpecApi
MaxRecoveryHeight == 1  \* ... 0..MaxRecoveryHeight under SpecRecovery
MaxRestarts == 1        \* restarts of the process (after a crash or a drop) in one behaviour
MaxFaults == 1          \* backend errors (a failed query or transaction) in one behaviour
QBMult == 2             \* query-builder harness: slice lengths around k * cap, k = 0..QBMult
QBWindow == 2           \* query-builder harness: ... within this distance of k * cap
MaxCacheHeight == 1     \* cache harness: outpoints of the blocks 0 .. MaxCacheHeight
MaxCachePos == 2        \* cache harness: ... at the positions 1 .. MaxCachePos
MaxRequest == 2         \* cache harness: runs of outpoints in one request
MaxRegistryHeight == 1  \* SpecRegistry: blocks of heights 0 .. MaxRegistryHeight
MaxRegistryBlocks == 3  \* SpecRegistry: blocks given to one process, branches included

InsertCap == 9000       \* rows per INSERT statement
FetchCap == 1500        \* rows per fetch-outputs SELECT
FlushThreshold == 100000 \* insert flushes when batch_txs_total exceeds it
WipeWindow == 100000    \* the id window of one truncation pass
PG_STARTING_ID == 1

Heights == 0 .. MaxHeight
NoHeight == 0 - 1       \* Option::None of an Option<BlockHeight>

Max(a, b) == IF a >= b THEN a ELSE b
Min(a, b) == IF a <= b THEN a ELSE b

(***************************************************************************)
(* Slices of records, as sequences of runs.                                *)
(***************************************************************************)
RECURSIVE RLen(_)
RLen(s) == IF s = <<>> THEN 0 ELSE Head(s).n + RLen(Tail(s))

\* &s[0..k]
RECURSIVE RTake(_, _)
RTake(s, k) ==
    IF k = 0 \/ s = <<>> THEN <<>>
    ELSE IF Head(s).n <= k THEN <<Head(s)>> \o RTake(Tail(s), k - Head(s).n)
    ELSE << [Head(s) EXCEPT !.n = k] >>

\* &s[k..s.len()]
RECURSIVE RDrop(_, _)
RDrop(s, k) ==
    IF k = 0 \/ s = <<>> THEN s
    ELSE IF Head(s).n <= k THEN RDrop(Tail(s), k - Head(s).n)
    ELSE << [Head(s) EXCEPT !.n = @ - k, !.first = @ + k] >> \o Tail(s)

(***************************************************************************)
(* Hashes.  Display prints a hash in reversed byte order; the backend      *)
(* stores the bytes of the hex literal it is given.                        *)
(***************************************************************************)
Reverse(ord) == IF ord = "int" THEN "hex" ELSE "int"
Display(ord) == Reverse(ord)

(***************************************************************************)
(* Maps keyed by transaction or outpoint (height, i), as sets of runs      *)
(* [height, first, n, id]: key (height, first + k) maps to id + k.         *)
(***************************************************************************)
HasKey(m, h, i) == \E r \in m : r.height = h /\ r.first <= i /\ i < r.first + r.n
Lookup(m, h, i) ==
    LET r == CHOOSE r \in m : r.height = h /\ r.first <= i /\ i < r.first + r.n
    IN  r.id + (i - r.first)
\* every key of the run [height, first, n] is in m, under consecutive ids
RunInMap(m, h, first, n) ==
    /\ HasKey(m, h, first)
    /\ HasKey(m, h, first + n - 1)
    /\ Lookup(m, h, first + n - 1) = Lookup(m, h, first) + n - 1
\* m without the keys (h, lo) .. (h, hi)
RemoveKeys(m, h, lo, hi) ==
    LET hit(r) == r.height = h /\ r.first <= hi /\ lo < r.first + r.n
        left(r) == IF r.first < lo THEN { [r EXCEPT !.n = lo - r.first] } ELSE {}
        right(r) == IF hi < r.first + r.n - 1
                    THEN { [r EXCEPT !.first = hi + 1, !.n = r.first + r.n - 1 - hi,
                                     !.id = r.id + (hi + 1 - r.first)] }
                    ELSE {}
    IN  { r \in m : ~hit(r) } \cup UNION { left(r) \cup right(r) : r \in { x \in m : hit(x) } }

(***************************************************************************)
(* Bulk query builders.  A statement is [verb, table, rows]: rows are the  *)
(* VALUES tuples, as runs.                                                 *)
(***************************************************************************)
\* "({}, '\\x{}', '\\x{}')", block.height, block.hash, block.prev_hash
BlockRows(blocks) ==
    [ i \in 1 .. Len(blocks) |->
        [first |-> blocks[i].first, n |-> blocks[i].n, ord |-> Display(blocks[i].ord)] ]

RECURSIVE create_bulk_insert_blocks_query(_)
\* mutation: the second half is emitted before the first
create_bulk_insert_blocks_query_swapped(blocks) ==
    IF RLen(blocks) = 0 THEN <<>>
    ELSE IF RLen(blocks) > InsertCap
    THEN LET mid == RLen(blocks) \div 2
         IN  create_bulk_insert_blocks_query(RDrop(blocks, mid))
                 \o create_bulk_insert_blocks_query(RTake(blocks, mid))
    ELSE << [verb |-> "INSERT", table |-> "blocks", rows |-> BlockRows(blocks)] >>

create_bulk_insert_blocks_query(blocks) ==
    IF RLen(blocks) = 0 THEN <<>>
    ELSE IF RLen(blocks) > InsertCap
    THEN LET mid == RLen(blocks) \div 2
         IN  create_bulk_insert_blocks_query(RTake(blocks, mid))
                 \o create_bulk_insert_blocks_query(RDrop(blocks, mid))
    ELSE << [verb |-> "INSERT", table |-> "blocks", rows |-> BlockRows(blocks)] >>

\* "({},'\\x{}',{})", tx.height, tx.hash, tx.coinbase
TxRows(txs) ==
    [ i \in 1 .. Len(txs) |->
        [height |-> txs[i].height, first |-> txs[i].first, n |-> txs[i].n,
         ord |-> Display(txs[i].ord)] ]

RECURSIVE create_bulk_insert_txs_query(_)
create_bulk_insert_txs_query(txs) ==
    IF RLen(txs) = 0 THEN <<>>
    ELSE IF RLen(txs) > InsertCap
    THEN LET mid == RLen(txs) \div 2
         IN  create_bulk_insert_txs_query(RTake(txs, mid))
                 \o create_bulk_insert_txs_query(RDrop(txs, mid))
    ELSE << [verb |-> "INSERT", table |-> "txs", rows |-> TxRows(txs)] >>

\* tx_ids[&output.out_point.txid] panics when the key is absent
OutputsIndexable(outputs, tx_ids) ==
    \A i \in 1 .. Len(outputs) :
        RunInMap(tx_ids, outputs[i].height, outputs[i].first, outputs[i].n)

\* "({},{},{},{},{},{})", height, tx_ids[txid], vout, value, address, coinbase
OutputRows(outputs, tx_ids) ==
    [ i \in 1 .. Len(outputs) |->
        [height |-> outputs[i].height, first |-> outputs[i].first, n |-> outputs[i].n,
         tx_id |-> Lookup(tx_ids, outputs[i].height, outputs[i].first)] ]

RECURSIVE create_bulk_insert_outputs_query(_, _)
create_bulk_insert_outputs_query(outputs, tx_ids) ==
    IF RLen(outputs) = 0 THEN <<>>
    ELSE IF RLen(outputs) > InsertCap
    THEN LET mid == RLen(outputs) \div 2
         IN  create_bulk_insert_outputs_query(RTake(outputs, mid), tx_ids)
                 \o create_bulk_insert_outputs_query(RDrop(outputs, mid), tx_ids)
    ELSE << [verb |-> "INSERT", table |-> "outputs", rows |-> OutputRows(outputs, tx_ids)] >>

\* outputs[&input.out_point] panics when the key is absent
InputsIndexable(inputs, outs) ==
    \A i \in 1 .. Len(inputs) :
        RunInMap(outs, inputs[i].oh, inputs[i].first, inputs[i].n)

\* "({},{})", input.height, outputs[&input.out_point].id
InputRows(inputs, outs) ==
    [ i \in 1 .. Len(inputs) |->
        [height |-> inputs[i].height, n |-> inputs[i].n,
         output_id |-> Lookup(outs, inputs[i].oh, inputs[i].first)] ]

RECURSIVE create_bulk_insert_inputs_query(_, _)
create_bulk_insert_inputs_query(inputs, outs) ==
    IF RLen(inputs) = 0 THEN <<>>
    ELSE IF RLen(inputs) > InsertCap
    THEN LET mid == RLen(inputs) \div 2
         IN  create_bulk_insert_inputs_query(RTake(inputs, mid), outs)
                 \o create_bulk_insert_inputs_query(RDrop(inputs, mid), outs)
    ELSE << [verb |-> "INSERT", table |-> "inputs", rows |-> InputRows(inputs, outs)] >>

\* "('\\x{}'::bytea,{})", output.txid, output.vout
FetchRows(points) ==
    [ i \in 1 .. Len(points) |->
        [height |-> points[i].height, first |-> points[i].first, n |-> points[i].n,
         ord |-> Display(points[i].ord)] ]

RECURSIVE crate_fetch_outputs_query(_)
crate_fetch_outputs_query(points) ==
    IF RLen(points) > FetchCap
    THEN LET mid == RLen(points) \div 2
         IN  crate_fetch_outputs_query(RTake(points, mid))
                 \o crate_fetch_outputs_query(RDrop(points, mid))
    ELSE << [verb |-> "SELECT", table |-> "outputs", rows |-> FetchRows(points)] >>

(***************************************************************************)
(* The backend.  A table is a sequence of runs of rows in id order; a run  *)
(* [id, n, ...] holds the rows id .. id + n - 1.  Every row carries g, the *)
(* (process, batch) that wrote it: history, which no operation reads.      *)
(* A serial sequence is [last, called], as PostgreSQL keeps it.            *)
(***************************************************************************)
Tables == { "blocks", "txs", "outputs", "inputs" }

FreshSeq == [last |-> PG_STARTING_ID, called |-> FALSE]

EmptyDb ==
    [ blocks |-> <<>>, txs |-> <<>>, outputs |-> <<>>, inputs |-> <<>>,
      seq |-> [t \in Tables |-> FreshSeq] ]

nextval(sq) == IF sq.called THEN sq.last + 1 ELSE sq.last

\* the statements the backend accepts: INSERT and SELECT need a non-empty VALUES
\* list, and REMOVE is no SQL verb
Accepts(stmt) ==
    /\ stmt.verb \in { "INSERT", "SELECT", "DELETE" }
    /\ stmt.verb \in { "INSERT", "SELECT" } => stmt.rows # <<>>

\* one INSERT statement: every row takes the next value of the table's sequence
RECURSIVE InsertRows(_, _, _, _)
InsertRows(d, t, rows, g) ==
    IF rows = <<>> THEN d
    ELSE LET r == Head(rows)
             id0 == nextval(d.seq[t])
             row == [ f \in (DOMAIN r) \cup { "id", "g" } |->
                        IF f = "id" THEN id0 ELSE IF f = "g" THEN g ELSE r[f] ]
             d1 == [d EXCEPT ![t] = Append(@, row),
                             !.seq[t] = [last |-> id0 + r.n - 1, called |-> TRUE]]
         IN  InsertRows(d1, t, Tail(rows), g)

RECURSIVE ExecAll(_, _, _)
ExecAll(d, queries, g) ==
    IF queries = <<>> THEN d
    ELSE ExecAll(InsertRows(d, Head(queries).table, Head(queries).rows, g), Tail(queries), g)

\* conn.transaction(), batch_execute of every statement, commit: all or nothing
execute_bulk_insert_transcation(d, queries, g) ==
    IF \A i \in 1 .. Len(queries) : Accepts(queries[i])
    THEN [ok |-> TRUE, db |-> ExecAll(d, queries, g)]
    ELSE [ok |-> FALSE, db |-> d]

\* select setval(seq, GREATEST(nextval(seq) - 1, 1)) as id;  then id + 1
read_next_id(d, t) ==
    LET v == Max(nextval(d.seq[t]) - 1, 1)
    IN  [id |-> v + 1, db |-> [d EXCEPT !.seq[t] = [last |-> v, called |-> TRUE]]]

read_next_tx_id(d) == read_next_id(d, "txs")
read_next_output_id(d) == read_next_id(d, "outputs")

\* SELECT max(id) FROM t (NULL, here NoHeight, when the table is empty)
LastId(r) == r.id + r.n - 1
RECURSIVE MaxId(_)
MaxId(tbl) == IF tbl = <<>> THEN NoHeight ELSE Max(LastId(Head(tbl)), MaxId(Tail(tbl)))

\* mutation: ORDER BY id ASC
TopBlockHeight_first(d) ==
    IF d.blocks = <<>> THEN NoHeight
    ELSE LET r == CHOOSE r \in { d.blocks[i] : i \in 1 .. Len(d.blocks) } :
                      \A q \in { d.blocks[i] : i \in 1 .. Len(d.blocks) } : r.id <= q.id
         IN  r.first

\* SELECT height FROM blocks ORDER BY id DESC LIMIT 1
TopBlockHeight(d) ==
    IF d.blocks = <<>> THEN NoHeight
    ELSE LET r == CHOOSE r \in { d.blocks[i] : i \in 1 .. Len(d.blocks) } :
                      LastId(r) = MaxId(d.blocks)
         IN  r.first + r.n - 1

\* SELECT hash FROM blocks WHERE height = $1 (the first row), bytes reversed
\* into a BlockHash: [height, ord], or NoHeight when there is no row
HashRowAt(d, height) ==
    LET hits == { i \in 1 .. Len(d.blocks) :
                    d.blocks[i].first <= height /\ height < d.blocks[i].first + d.blocks[i].n }
    IN  IF hits = {} THEN [height |-> NoHeight, ord |-> "int"]
        ELSE LET i == CHOOSE i \in hits : \A j \in hits : i <= j
             IN  [height |-> height, ord |-> Reverse(d.blocks[i].ord)]

(***************************************************************************)
(* Recovery truncator.                                                     *)
(***************************************************************************)
\* DELETE FROM t WHERE id > (SELECT max(id) - 100000 FROM t) AND height > $1
\* on a table of runs keyed by id: a run loses its rows above the window's floor
RECURSIVE DeletePassById(_, _, _)
DeletePassById(tbl, floor, height) ==
    IF tbl = <<>> THEN <<>>
    ELSE LET r == Head(tbl)
             keep == IF r.height > height THEN Max(0, Min(r.n, floor - r.id + 1)) ELSE r.n
         IN  (IF keep = 0 THEN <<>> ELSE << [r EXCEPT !.n = keep] >>)
                 \o DeletePassById(Tail(tbl), floor, height)

\* the same statement with id_col = output_id, on the inputs table
LastOutputId(r) == r.output_id + r.n - 1
RECURSIVE MaxOutputId(_)
MaxOutputId(tbl) ==
    IF tbl = <<>> THEN NoHeight ELSE Max(LastOutputId(Head(tbl)), MaxOutputId(Tail(tbl)))
RECURSIVE DeletePassByOutputId(_, _, _)
DeletePassByOutputId(tbl, floor, height) ==
    IF tbl = <<>> THEN <<>>
    ELSE LET r == Head(tbl)
             keep == IF r.height > height THEN Max(0, Min(r.n, floor - r.output_id + 1)) ELSE r.n
         IN  (IF keep = 0 THEN <<>> ELSE << [r EXCEPT !.n = keep] >>)
                 \o DeletePassByOutputId(Tail(tbl), floor, height)

DeletePass(tbl, id_col, height) ==
    IF tbl = <<>> THEN tbl      \* max() of no rows is NULL: nothing compares above it
    ELSE IF id_col = "id"
    THEN DeletePassById(tbl, MaxId(tbl) - WipeWindow, height)
    ELSE DeletePassByOutputId(tbl, MaxOutputId(tbl) - WipeWindow, height)

\* mutation: one pass
wipe_gt_height_from_id_sorted_table_once(tbl, id_col, height) == DeletePass(tbl, id_col, height)

\* loop { deleted = execute(q); if deleted == 0 { break } }
RECURSIVE wipe_gt_height_from_id_sorted_table(_, _, _)
wipe_gt_height_from_id_sorted_table(tbl, id_col, height) ==
    LET after == DeletePass(tbl, id_col, height)
    IN  IF RLen(after) = RLen(tbl) THEN tbl
        ELSE wipe_gt_height_from_id_sorted_table(after, id_col, height)

wipe_inconsistent_data(d) ==
    LET height == TopBlockHeight(d)         \* self.get_max_height()?
    IN  IF height = NoHeight THEN d
        ELSE [d EXCEPT !.txs = wipe_gt_height_from_id_sorted_table(@, "id", height),
                       !.outputs = wipe_gt_height_from_id_sorted_table(@, "id", height),
                       !.inputs = wipe_gt_height_from_id_sorted_table(@, "output_id", height)]

(***************************************************************************)
(* Blocks handed to insert, and their parsed form.                         *)
(* A BlockInfo is [height, ntx, spend, valid]: ntx transactions with one   *)
(* output each, and one input, spending the output (spend, 1), unless      *)
(* spend = NoHeight; parse_node_block fails on a block that is not valid.  *)
(***************************************************************************)
TxCounts == { 1, FlushThreshold, WipeWindow + 1 }

BlockInfos ==
    UNION { { [height |-> h, ntx |-> c, spend |-> sp, valid |-> v] :
                c \in TxCounts, sp \in { NoHeight, h - 1 }, v \in BOOLEAN } : h \in Heights }

parse_node_block(b) ==
    [ block |-> [first |-> b.height, n |-> 1, ord |-> "int"],
      txs |-> << [height |-> b.height, first |-> 1, n |-> b.ntx, ord |-> "int"] >>,
      outputs |-> << [height |-> b.height, first |-> 1, n |-> b.ntx] >>,
      inputs |-> IF b.spend = NoHeight THEN <<>>
                 ELSE << [height |-> b.height, oh |-> b.spend, first |-> 1, n |-> 1] >> ]

RECURSIVE Concat(_, _)
Concat(parsed, f) ==
    IF parsed = <<>> THEN <<>> ELSE Head(parsed)[f] \o Concat(Tail(parsed), f)

BlocksOf(parsed) == [ i \in 1 .. Len(parsed) |-> parsed[i].block ]

BlockHeights(blocks) ==
    UNION { blocks[i].first .. (blocks[i].first + blocks[i].n - 1) : i \in 1 .. Len(blocks) }

(***************************************************************************)
(* UTXO-resolution cache.                                                  *)
(***************************************************************************)
\* HashMap::insert of the keys of a run, the k-th under id + k: an entry already
\* under a key is replaced
MapInsert(m, run, id) ==
    RemoveKeys(m, run.height, run.first, run.first + run.n - 1)
        \cup { [height |-> run.height, first |-> run.first, n |-> run.n, id |-> id] }

\* utxo_lock.insert(output.out_point, next_id + i, output.value), for every output
RECURSIVE UtxoInsertAll(_, _, _)
UtxoInsertAll(entries, outputs, id) ==
    IF outputs = <<>> THEN entries
    ELSE UtxoInsertAll(MapInsert(entries, Head(outputs), id), Tail(outputs),
                       id + Head(outputs).n)

\* mutation: entries.get instead of entries.remove
RECURSIVE consume_keeping(_, _)
consume_keeping(entries, points) ==
    IF points = <<>> THEN [entries |-> entries, found |-> {}, missing |-> <<>>]
    ELSE LET p == Head(points)
             rest == IF p.n = 1 THEN Tail(points)
                     ELSE << [p EXCEPT !.first = @ + 1, !.n = @ - 1] >> \o Tail(points)
             hit == HasKey(entries, p.height, p.first)
             r == consume_keeping(entries, rest)
         IN  IF hit
             THEN [r EXCEPT !.found =
                      { [height |-> p.height, first |-> p.first, n |-> 1,
                         id |-> Lookup(entries, p.height, p.first)] } \cup @]
             ELSE [r EXCEPT !.missing =
                      << [height |-> p.height, first |-> p.first, n |-> 1, ord |-> "int"] >>
                          \o @]

\* consume: of a sequence of outpoints, one at a time and in order
RECURSIVE consume(_, _)
consume(entries, points) ==
    IF points = <<>> THEN [entries |-> entries, found |-> {}, missing |-> <<>>]
    ELSE LET p == Head(points)
             rest == IF p.n = 1 THEN Tail(points)
                     ELSE << [p EXCEPT !.first = @ + 1, !.n = @ - 1] >> \o Tail(points)
             hit == HasKey(entries, p.height, p.first)
             r == consume(IF hit THEN RemoveKeys(entries, p.height, p.first, p.first)
                          ELSE entries, rest)
         IN  IF hit
             THEN [r EXCEPT !.found =
                      { [height |-> p.height, first |-> p.first, n |-> 1,
                         id |-> Lookup(entries, p.height, p.first)] } \cup @]
             ELSE [r EXCEPT !.missing =
                      << [height |-> p.height, first |-> p.first, n |-> 1, ord |-> "int"] >>
                          \o @]

\* the outpoints the inputs spend: inputs.iter().map(|i| i.out_point)
OutPointsOf(inputs) ==
    [ i \in 1 .. Len(inputs) |->
        [height |-> inputs[i].oh, first |-> inputs[i].first, n |-> inputs[i].n] ]

\* the rows one fetch-outputs SELECT returns: outputs joined to txs on
\* txs.id = outputs.tx_id, kept where (txs.hash, tx_idx) is one of the VALUES;
\* each as [height, first, n, id, ord]: the outpoints (height, first..) with the
\* hash as stored
QueryOutputs(d, stmt) ==
    LET O == { d.outputs[i] : i \in 1 .. Len(d.outputs) }
        T == { d.txs[i] : i \in 1 .. Len(d.txs) }
        V == { stmt.rows[i] : i \in 1 .. Len(stmt.rows) }
        \* the tx ids the output run o and the tx run t share
        lo(o, t) == Max(o.tx_id, t.id)
        hi(o, t) == Min(o.tx_id + o.n - 1, t.id + t.n - 1)
        \* ... as positions in the block of t, cut to the VALUES run v
        plo(o, t, v) == Max(t.first + (lo(o, t) - t.id), v.first)
        phi(o, t, v) == Min(t.first + (hi(o, t) - t.id), v.first + v.n - 1)
    IN  { [height |-> t.height, first |-> plo(o, t, v), n |-> phi(o, t, v) - plo(o, t, v) + 1,
           id |-> o.id + ((plo(o, t, v) - t.first) + t.id - o.tx_id), ord |-> t.ord] :
          <<o, t, v>> \in { x \in O \X T \X V :
                LET oo == x[1]  tt == x[2]  vv == x[3]
                IN  /\ lo(oo, tt) <= hi(oo, tt)
                    /\ tt.height = vv.height /\ tt.ord = vv.ord
                    /\ plo(oo, tt, vv) <= phi(oo, tt, vv) } }

\* mutation: the entry takes the id after the one of the row
RECURSIVE InsertFetched_shifted(_, _)
InsertFetched_shifted(out, rows) ==
    IF rows = {} THEN out
    ELSE LET r == CHOOSE r \in rows : \A q \in rows : r.id <= q.id
         IN  InsertFetched_shifted(MapInsert(out, r, r.id + 1), rows \ { r })

\* out.insert(OutPoint { txid: reversed hash, vout }, UtxoSetEntry { id, value })
\* for every row, in the order of their ids: a later row for the same outpoint
\* replaces an earlier one
RECURSIVE InsertFetched(_, _)
InsertFetched(out, rows) ==
    IF rows = {} THEN out
    ELSE LET r == CHOOSE r \in rows : \A q \in rows : r.id <= q.id
         IN  InsertFetched(MapInsert(out, r, r.id), rows \ { r })

\* fetch_missing.  The result keeps the entries whose key is a hash in memory
\* order: no other key is ever looked up.
RECURSIVE fetch_rows(_, _, _)
fetch_rows(d, queries, out) ==
    IF queries = <<>> THEN out
    ELSE LET rows == QueryOutputs(d, Head(queries))
             keyed == { r \in rows : Reverse(r.ord) = "int" }
         IN  fetch_rows(d, Tail(queries), InsertFetched(out, keyed))

fetch_missing(d, missing) ==
    IF missing = <<>> THEN {}
    ELSE fetch_rows(d, crate_fetch_outputs_query(missing), {})

\* for (k, v) in missing { output_ids.insert(k, v) }
RECURSIVE Overlay(_, _)
Overlay(m, extra) ==
    IF extra = {} THEN m
    ELSE LET r == CHOOSE r \in extra : TRUE
         IN  Overlay(MapInsert(m, r, r.id), extra \ { r })

\* mutation: the i-th transaction under next_id + i + 1
RECURSIVE TxIds_shifted(_, _, _)
TxIds_shifted(m, txs, id) ==
    IF txs = <<>> THEN m
    ELSE TxIds_shifted(MapInsert(m, Head(txs), id + 1), Tail(txs), id + Head(txs).n)

\* tx_ids: (tx.hash, next_id + i) for the i-th transaction of the batch, collected
RECURSIVE TxIds(_, _, _)
TxIds(m, txs, id) ==
    IF txs = <<>> THEN m
    ELSE TxIds(MapInsert(m, Head(txs), id), Tail(txs), id + Head(txs).n)

(***************************************************************************)
(* The process: one Postresql value, its caller's thread and the four      *)
(* worker threads of its Pipeline.                                         *)
(***************************************************************************)
Workers == << "txs", "outputs", "inputs", "blocks" >>     \* in join order
WorkerSet == { "txs", "outputs", "inputs", "blocks" }
\* mutation: BlocksStage receives from TxStage
Upstream_blocks_after_txs(t) ==
    CASE t = "outputs" -> "txs" [] t = "inputs" -> "outputs" [] t = "blocks" -> "txs"
Upstream(t) == CASE t = "outputs" -> "txs" [] t = "inputs" -> "outputs" [] t = "blocks" -> "inputs"
Downstream(t) == CASE t = "txs" -> "outputs" [] t = "outputs" -> "inputs" [] t = "inputs" -> "blocks"

NoMsg == <<>>
Idle == [op |-> "idle", at |-> "idle", h |-> NoHeight, j |-> 0, m |-> NoMsg]
\* what a call returned: arg is the height the call was given; ok is Ok(..)
\* against Err(..); height and ord hold the Option<BlockHeight> or the
\* Option<BlockHash> (the hash of the block at height); op names the call when it
\* returns more than (), and is "unit" otherwise
Returned(op, arg, ok, height, ord) ==
    [op |-> op, arg |-> arg, ok |-> ok, height |-> height, ord |-> ord]
NoRet == Returned("none", NoHeight, TRUE, NoHeight, "int")
Unit == Returned("unit", NoHeight, TRUE, NoHeight, "int")

\* mutation: no pipeline is atomic
is_atomic_never(m) == FALSE
\* PipelineMode::is_atomic
is_atomic(m) == m = "Atomic"

\* mutation: a worker that returned an error keeps its ends of the channels
Terminated_unless_err(t) == pc[t] \in { "ok", "panic" }

Terminated(t) == pc[t] \in { "ok", "err", "panic" }

pipeVars == << pipeline, mode, tx_open, pc, msg, next_id, utxo_set_cache >>

\* the process is gone (killed, panicked, or dropped): nothing of it is left
ProcessGone ==
    /\ up' = FALSE
    /\ cached_max_height' = NoHeight
    /\ pipeline' = "None"
    /\ batch' = <<>>
    /\ batch_txs_total' = 0
    /\ batch_id' = 0
    /\ bulk_mode' = TRUE
    /\ in_flight' = {}
    /\ mode' = "Bulk"
    /\ tx_open' = FALSE
    /\ pc' = [t \in WorkerSet |-> "none"]
    /\ msg' = [t \in WorkerSet |-> NoMsg]
    /\ next_id' = [t \in WorkerSet |-> 0]
    /\ utxo_set_cache' = {}
    /\ main' = Idle
    /\ ret' = NoRet
    /\ hist' = [hist EXCEPT !.sent = <<>>, !.seen = {}, !.mono = TRUE, !.hi = NoHeight,
                            !.done = [t \in WorkerSet |-> <<>>]]

\* the backend before the first process, with starts processes and faults
\* backend errors to come
InitWith(starts, faults) ==
    /\ db = EmptyDb
    /\ up = FALSE
    /\ cached_max_height = NoHeight
    /\ pipeline = "None"
    /\ batch = <<>>
    /\ batch_txs_total = 0
    /\ batch_id = 0
    /\ bulk_mode = TRUE
    /\ in_flight = {}
    /\ mode = "Bulk"
    /\ tx_open = FALSE
    /\ pc = [t \in WorkerSet |-> "none"]
    /\ msg = [t \in WorkerSet |-> NoMsg]
    /\ next_id = [t \in WorkerSet |-> 0]
    /\ utxo_set_cache = {}
    /\ main = Idle
    /\ ret = NoRet
    /\ hist = [epoch |-> 0, sent |-> <<>>, seen |-> {}, mono |-> TRUE, hi |-> NoHeight,
               done |-> [t \in WorkerSet |-> <<>>]]
    /\ budget = [starts |-> starts, faults |-> faults]
    /\ qb = [fn |-> "none", slice |-> <<>>, out |-> <<>>]

\* Pipeline::new(in_flight, mode): fresh channels, a fresh cache, four threads
start_workers ==
    /\ pipeline' = "Some"
    /\ mode' = IF bulk_mode' THEN "Bulk" ELSE "Atomic"
    /\ tx_open' = TRUE
    /\ pc' = [t \in WorkerSet |-> IF t \in { "txs", "outputs" } THEN "start" ELSE "recv"]
    /\ msg' = [t \in WorkerSet |-> NoMsg]
    /\ next_id' = [t \in WorkerSet |-> 0]
    /\ utxo_set_cache' = {}

\* Postresql::new(): init, wipe_inconsistent_data (whose get_max_height sets the
\* cached height), start_workers
New ==
    /\ ~up /\ budget.starts > 0
    /\ budget' = [budget EXCEPT !.starts = @ - 1]
    /\ up' = TRUE
    /\ cached_max_height' = TopBlockHeight(db)
    /\ db' = wipe_inconsistent_data(db)
    /\ bulk_mode' = TRUE
    /\ start_workers
    /\ hist' = [epoch |-> hist.epoch + 1, sent |-> <<>>, seen |-> {}, mono |-> TRUE,
                hi |-> TopBlockHeight(db), done |-> [t \in WorkerSet |-> <<>>]]
    /\ UNCHANGED << batch, batch_txs_total, batch_id, in_flight, main, ret, qb >>

\* the process is killed
Crash ==
    /\ up
    /\ ProcessGone
    /\ UNCHANGED << db, budget, qb >>

(***************************************************************************)
(* The caller's thread.                                                    *)
(***************************************************************************)
update_max_height(info) ==
    IF cached_max_height = NoHeight THEN info.height ELSE Max(cached_max_height, info.height)

\* mutation: the batch stays in the accumulator
flush_batch_keeping(b, op, h) ==
    /\ batch' = b
    /\ in_flight' = in_flight
    /\ main' = [op |-> op, at |-> "flushed", h |-> h, j |-> 0, m |-> NoMsg]

\* mutation: the heights are registered before the blocks are parsed
flush_batch_registering(b, op, h) ==
    /\ batch' = <<>>
    /\ in_flight' = in_flight \cup { b[i].height : i \in 1 .. Len(b) }
    /\ IF b = <<>> \/ \E i \in 1 .. Len(b) : ~b[i].valid
       THEN main' = [op |-> op, at |-> "flushed", h |-> h, j |-> 0, m |-> NoMsg]
       ELSE main' = [op |-> op, at |-> "send", h |-> h, j |-> 0,
                     m |-> [batch_id |-> batch_id,
                            parsed |-> [ i \in 1 .. Len(b) |-> parse_node_block(b[i]) ]]]

\* flush_batch up to its send, for the call op: the batch b is taken out of the
\* accumulator and parsed, its heights are registered, and the message is offered
\* to TxStage; an empty batch and a parse error return at once
flush_batch(b, op, h) ==
    /\ batch' = <<>>
    /\ IF b = <<>> \/ \E i \in 1 .. Len(b) : ~b[i].valid
       THEN /\ in_flight' = in_flight
            /\ main' = [op |-> op, at |-> "flushed", h |-> h, j |-> 0, m |-> NoMsg]
       ELSE LET parsed == [ i \in 1 .. Len(b) |-> parse_node_block(b[i]) ]
            IN  /\ in_flight' = in_flight \cup BlockHeights(BlocksOf(parsed))
                /\ main' = [op |-> op, at |-> "send", h |-> h, j |-> 0,
                            m |-> [batch_id |-> batch_id, parsed |-> parsed]]

\* insert
insert(info) ==
    /\ up /\ main.op = "idle"
    /\ cached_max_height' = update_max_height(info)
    /\ batch_txs_total' = batch_txs_total + info.ntx
    /\ hist' = [hist EXCEPT !.seen = @ \cup { info.height },
                            !.mono = @ /\ info.height > hist.hi,
                            !.hi = Max(@, info.height)]
    /\ IF batch_txs_total' > FlushThreshold
       THEN flush_batch(Append(batch, info), "insert", NoHeight) /\ UNCHANGED ret
       ELSE /\ batch' = Append(batch, info)
            /\ ret' = Unit
            /\ UNCHANGED << in_flight, main >>
    /\ UNCHANGED << db, up, batch_id, bulk_mode, pipeVars, budget, qb >>

\* insert of a block at a height this process has not seen and the backend
\* does not hold
Insert(info) ==
    /\ info.height \notin hist.seen
    /\ info.height \notin BlockHeights(db.blocks)
    /\ insert(info)

\* insert of another block (another hash) at a height this process has already
\* been given: a block of a competing branch
InsertFork(info) ==
    /\ info.height \in hist.seen
    /\ insert(info)

Flush ==
    /\ up /\ main.op = "idle"
    /\ flush_batch(batch, "flush", NoHeight)
    /\ UNCHANGED << db, up, cached_max_height, batch_txs_total, batch_id, bulk_mode,
                    pipeVars, ret, hist, budget, qb >>

mode_bulk ==
    /\ up /\ main.op = "idle"
    /\ bulk_mode' = TRUE
    /\ ret' = Unit
    /\ UNCHANGED << db, up, cached_max_height, batch, batch_txs_total, batch_id, in_flight,
                    pipeVars, main, hist, budget, qb >>

mode_fresh ==
    /\ up /\ main.op = "idle"
    /\ bulk_mode' = TRUE
    /\ ret' = Unit
    /\ UNCHANGED << db, up, cached_max_height, batch, batch_txs_total, batch_id, in_flight,
                    pipeVars, main, hist, budget, qb >>

\* mode_normal, and reorg_at_height(h), which begins with it
mode_normal(op, h) ==
    /\ up /\ main.op = "idle"
    /\ bulk_mode' = FALSE
    /\ flush_batch(batch, op, h)
    /\ UNCHANGED << db, up, cached_max_height, batch_txs_total, batch_id,
                    pipeVars, ret, hist, budget, qb >>

get_max_height ==
    /\ up /\ main.op = "idle"
    /\ cached_max_height' = TopBlockHeight(db)
    /\ ret' = Returned("get_max_height", NoHeight, TRUE, cached_max_height', "int")
    /\ UNCHANGED << db, up, batch, batch_txs_total, batch_id, bulk_mode, in_flight,
                    pipeVars, main, hist, budget, qb >>

\* get_hash_by_height(height): beyond the cached height the answer is None
get_hash_by_height(height) ==
    /\ up /\ main.op = "idle"
    /\ IF cached_max_height # NoHeight /\ cached_max_height < height
       THEN /\ ret' = Returned("get_hash_by_height", height, TRUE, NoHeight, "int")
            /\ UNCHANGED << batch, in_flight, main >>
       ELSE flush_batch(batch, "get_hash_by_height", height) /\ UNCHANGED ret
    /\ UNCHANGED << db, up, cached_max_height, batch_txs_total, batch_id, bulk_mode,
                    pipeVars, hist, budget, qb >>

\* mutation: the batch id is not advanced
SendReturns_same_id(delivered) ==
    /\ batch_txs_total' = 0
    /\ batch_id' = batch_id
    /\ main' = [main EXCEPT !.at = "flushed", !.m = NoMsg]
    /\ hist' = [hist EXCEPT !.sent = Append(@, [batch_id |-> batch_id,
                                                 parsed |-> main.m.parsed,
                                                 mode |-> mode,
                                                 delivered |-> delivered]),
                            !.done["txs"] = IF delivered THEN Append(@, main.m.batch_id)
                                            ELSE @]

\* the send of flush_batch returns: TxStage took the message, or TxStage is gone
\* and the error is not looked at; then the count is reset and the id bumped
SendReturns(delivered) ==
    /\ batch_txs_total' = 0
    /\ batch_id' = batch_id + 1
    /\ main' = [main EXCEPT !.at = "flushed", !.m = NoMsg]
    /\ hist' = [hist EXCEPT !.sent = Append(@, [batch_id |-> batch_id,
                                                 parsed |-> main.m.parsed,
                                                 mode |-> mode,
                                                 delivered |-> delivered]),
                            !.done["txs"] = IF delivered THEN Append(@, main.m.batch_id)
                                            ELSE @]

SendToTxs ==
    /\ main.at = "send" /\ pc["txs"] = "recv"
    /\ pc' = [pc EXCEPT !["txs"] = "work"]
    /\ msg' = [msg EXCEPT !["txs"] = main.m]
    /\ SendReturns(TRUE)
    /\ UNCHANGED << db, up, cached_max_height, pipeline, batch, bulk_mode, in_flight, mode,
                    tx_open, next_id, utxo_set_cache, ret, budget, qb >>

SendDisconnected ==
    /\ main.at = "send" /\ Terminated("txs")
    /\ SendReturns(FALSE)
    /\ UNCHANGED << db, up, cached_max_height, pipeline, batch, bulk_mode, in_flight,
                    pipeVars, ret, budget, qb >>

\* insert and flush return Ok whatever flush_batch returned
ReturnOk ==
    /\ main.at = "flushed" /\ main.op \in { "insert", "flush" }
    /\ main' = Idle
    /\ ret' = Unit
    /\ UNCHANGED << db, up, cached_max_height, pipeline, batch, batch_txs_total, batch_id,
                    bulk_mode, in_flight, mode, tx_open, pc, msg, next_id, utxo_set_cache,
                    hist, budget, qb >>

\* mutation: the Pipeline is dropped without its sender being dropped
stop_workers_keeping_tx(op, h) ==
    /\ pipeline' = "None"
    /\ tx_open' = tx_open
    /\ main' = [op |-> op, at |-> "join", h |-> h, j |-> 1, m |-> NoMsg]

\* stop_workers: self.pipeline.take() drops the Pipeline, which drops its sender
\* and then joins the workers
stop_workers(op, h) ==
    /\ pipeline' = "None"
    /\ tx_open' = FALSE
    /\ main' = [op |-> op, at |-> "join", h |-> h, j |-> 1, m |-> NoMsg]

\* flush_workers of mode_normal; of get_hash_by_height when the registry is not empty
FlushWorkers ==
    /\ main.at = "flushed"
    /\ IF main.op = "get_hash_by_height" THEN in_flight # {}
       ELSE main.op \in { "mode_normal", "reorg_at_height" }
    /\ stop_workers(main.op, main.h)
    /\ UNCHANGED << db, up, cached_max_height, batch, batch_txs_total, batch_id, bulk_mode,
                    in_flight, mode, pc, msg, next_id, utxo_set_cache, ret, hist, budget, qb >>

\* impl Drop for Postresql
DropStore ==
    /\ up /\ main.op = "idle"
    /\ stop_workers("drop", NoHeight)
    /\ UNCHANGED << db, up, cached_max_height, batch, batch_txs_total, batch_id, bulk_mode,
                    in_flight, mode, pc, msg, next_id, utxo_set_cache, ret, hist, budget, qb >>

\* join.join().expect("Worker thread panicked"), worker by worker; the Result the
\* worker returned is dropped
Join ==
    /\ main.at = "join"
    /\ Terminated(Workers[main.j])
    /\ IF pc[Workers[main.j]] = "panic"
       THEN ProcessGone
       ELSE /\ main' = [main EXCEPT !.j = @ + 1, !.at = IF main.j = 4 THEN "joined" ELSE "join"]
            /\ UNCHANGED << up, cached_max_height, pipeline, batch, batch_txs_total, batch_id,
                            bulk_mode, in_flight, mode, tx_open, pc, msg, next_id,
                            utxo_set_cache, ret, hist >>
    /\ UNCHANGED << db, budget, qb >>

\* the four statements of reorg_at_height
reorg_statements(height) ==
    [ i \in 1 .. 4 |->
        [verb |-> "REMOVE", table |-> << "blocks", "txs", "inputs", "outputs" >>[i],
         height |-> height] ]

\* ... WHERE height >= $1, on a table of runs
RECURSIVE DeleteFrom(_, _)
DeleteFrom(tbl, height) ==
    IF tbl = <<>> THEN <<>>
    ELSE LET r == Head(tbl)
             rest == DeleteFrom(Tail(tbl), height)
         IN  IF "height" \in DOMAIN r
             THEN (IF r.height >= height THEN rest ELSE << r >> \o rest)
             ELSE (IF r.first >= height THEN rest
                   ELSE << [r EXCEPT !.n = Min(@, height - r.first)] >> \o rest)

\* connection.execute(..)? statement by statement: the first refused statement
\* returns the error
RECURSIVE ExecuteEach(_, _)
ExecuteEach(d, stmts) ==
    IF stmts = <<>> THEN [ok |-> TRUE, db |-> d]
    ELSE IF ~Accepts(Head(stmts)) THEN [ok |-> FALSE, db |-> d]
    ELSE ExecuteEach([d EXCEPT ![Head(stmts).table] = DeleteFrom(@, Head(stmts).height)],
                     Tail(stmts))

\* after the last join: assert!(in_flight.is_empty()), and the rest of the call
AfterJoin ==
    /\ main.at = "joined"
    /\ IF in_flight # {} \/ main.op = "drop"
       THEN ProcessGone /\ UNCHANGED db
       ELSE /\ bulk_mode' = bulk_mode
            /\ start_workers
            /\ main' = Idle
            /\ UNCHANGED << up, batch, batch_txs_total, batch_id, in_flight, hist >>
            /\ CASE main.op = "mode_normal" ->
                      /\ ret' = Unit
                      /\ UNCHANGED << db, cached_max_height >>
                 [] main.op = "get_hash_by_height" ->
                      LET row == HashRowAt(db, main.h)
                      IN  /\ ret' = Returned("get_hash_by_height", main.h, TRUE, row.height, row.ord)
                          /\ UNCHANGED << db, cached_max_height >>
                 [] main.op = "reorg_at_height" ->
                      LET res == ExecuteEach(db, reorg_statements(main.h))
                      IN  /\ db' = res.db
                          /\ cached_max_height' =
                                IF res.ok THEN NoHeight ELSE cached_max_height
                          /\ ret' = Returned("reorg_at_height", main.h, res.ok, NoHeight, "int")
    /\ UNCHANGED << budget, qb >>

\* get_hash_by_height with an empty registry: the query, without a restart
GetHashQuery ==
    /\ main.at = "flushed" /\ main.op = "get_hash_by_height" /\ in_flight = {}
    /\ LET row == HashRowAt(db, main.h)
       IN  ret' = Returned("get_hash_by_height", main.h, TRUE, row.height, row.ord)
    /\ main' = Idle
    /\ UNCHANGED << db, up, cached_max_height, pipeline, batch, batch_txs_total, batch_id,
                    bulk_mode, in_flight, mode, tx_open, pc, msg, next_id, utxo_set_cache,
                    hist, budget, qb >>

(***************************************************************************)
(* The worker threads.  pc: "start" (before the first read of the next     *)
(* id), "recv" (in recv), "work" (holding a received message), "cache"     *)
(* (OutputsStage before the cache lock), "fetch" (InputsStage after        *)
(* consume), "unreg" (BlocksStage after its commit), "send" (in send),     *)
(* "ok" / "err" (returned), "panic".                                       *)
(***************************************************************************)
Tag(m) == [e |-> hist.epoch, b |-> m.batch_id]

Stop(t, how) ==
    /\ pc' = [pc EXCEPT ![t] = how]
    /\ msg' = [msg EXCEPT ![t] = NoMsg]

\* let mut next_id = read_next_tx_id(&conn)?  /  read_next_output_id(&conn)?
Start(t) ==
    /\ pc[t] = "start"
    /\ LET rd == read_next_id(db, t)
       IN  /\ db' = rd.db
           /\ next_id' = [next_id EXCEPT ![t] = rd.id]
    /\ pc' = [pc EXCEPT ![t] = "recv"]
    /\ UNCHANGED << up, cached_max_height, pipeline, batch, batch_txs_total, batch_id,
                    bulk_mode, in_flight, mode, tx_open, msg, utxo_set_cache, main, ret,
                    hist, budget, qb >>

\* a rendezvous: the receiver's recv meets the upstream worker's send
Recv(t) ==
    /\ pc[t] = "recv" /\ pc[Upstream(t)] = "send"
    /\ pc' = [pc EXCEPT ![t] = "work", ![Upstream(t)] = "recv"]
    /\ msg' = [msg EXCEPT ![t] = msg[Upstream(t)], ![Upstream(t)] = NoMsg]
    /\ hist' = [hist EXCEPT !.done[t] = Append(@, msg[Upstream(t)].batch_id)]
    /\ UNCHANGED << db, up, cached_max_height, pipeline, batch, batch_txs_total, batch_id,
                    bulk_mode, in_flight, mode, tx_open, next_id, utxo_set_cache, main, ret,
                    budget, qb >>

\* recv returns Err once the sender is dropped: the loop ends and the worker
\* returns Ok(())
RecvClosed(t) ==
    /\ pc[t] = "recv"
    /\ IF t = "txs" THEN ~tx_open ELSE Terminated(Upstream(t))
    /\ Stop(t, "ok")
    /\ UNCHANGED << db, up, cached_max_height, pipeline, batch, batch_txs_total, batch_id,
                    bulk_mode, in_flight, mode, tx_open, next_id, utxo_set_cache, main, ret,
                    hist, budget, qb >>

\* send(..)? returns Err once the receiver is dropped
SendClosed(t) ==
    /\ pc[t] = "send" /\ Terminated(Downstream(t))
    /\ Stop(t, "err")
    /\ UNCHANGED << db, up, cached_max_height, pipeline, batch, batch_txs_total, batch_id,
                    bulk_mode, in_flight, mode, tx_open, next_id, utxo_set_cache, main, ret,
                    hist, budget, qb >>

\* TxStage, one batch
TxWork ==
    /\ pc["txs"] = "work"
    /\ LET m == msg["txs"]
           rd == read_next_tx_id(db)
           txs == Concat(m.parsed, "txs")
           queries == create_bulk_insert_txs_query(txs)
           res == IF is_atomic(mode) THEN [ok |-> TRUE, db |-> rd.db]
                  ELSE execute_bulk_insert_transcation(rd.db, queries, Tag(m))
       IN  IF next_id["txs"] # rd.id                 \* assert_eq!
           THEN /\ Stop("txs", "panic") /\ db' = rd.db /\ UNCHANGED next_id
           ELSE IF ~res.ok
           THEN /\ Stop("txs", "err") /\ db' = rd.db /\ UNCHANGED next_id
           ELSE /\ db' = res.db
                /\ next_id' = [next_id EXCEPT !["txs"] = @ + RLen(txs)]
                /\ pc' = [pc EXCEPT !["txs"] = "send"]
                /\ msg' = [msg EXCEPT !["txs"] =
                     [batch_id |-> m.batch_id,
                      blocks |-> BlocksOf(m.parsed),
                      outputs |-> Concat(m.parsed, "outputs"),
                      inputs |-> Concat(m.parsed, "inputs"),
                      tx_ids |-> TxIds({}, txs, next_id["txs"]),
                      pending_queries |-> IF is_atomic(mode) THEN << queries >> ELSE <<>>]]
    /\ UNCHANGED << up, cached_max_height, pipeline, batch, batch_txs_total, batch_id,
                    bulk_mode, in_flight, mode, tx_open, utxo_set_cache, main, ret,
                    hist, budget, qb >>

\* OutputsStage, one batch, up to the cache lock
OutputsWork ==
    /\ pc["outputs"] = "work"
    /\ LET m == msg["outputs"]
           rd == read_next_output_id(db)
           queries == create_bulk_insert_outputs_query(m.outputs, m.tx_ids)
           res == IF is_atomic(mode) THEN [ok |-> TRUE, db |-> rd.db]
                  ELSE execute_bulk_insert_transcation(rd.db, queries, Tag(m))
       IN  IF next_id["outputs"] # rd.id \/ ~OutputsIndexable(m.outputs, m.tx_ids)
           THEN /\ Stop("outputs", "panic") /\ db' = rd.db
           ELSE IF ~res.ok
           THEN /\ Stop("outputs", "err") /\ db' = rd.db
           ELSE /\ db' = res.db
                /\ pc' = [pc EXCEPT !["outputs"] = "cache"]
                /\ msg' = [msg EXCEPT !["outputs"] =
                     [m EXCEPT !.pending_queries =
                        IF is_atomic(mode) THEN Append(@, queries) ELSE @]]
    /\ UNCHANGED << up, cached_max_height, pipeline, batch, batch_txs_total, batch_id,
                    bulk_mode, in_flight, mode, tx_open, next_id, utxo_set_cache, main, ret,
                    hist, budget, qb >>

\* OutputsStage: the new outputs enter the cache, under its lock
OutputsCache ==
    /\ pc["outputs"] = "cache"
    /\ LET m == msg["outputs"]
       IN  /\ utxo_set_cache' = UtxoInsertAll(utxo_set_cache, m.outputs, next_id["outputs"])
           /\ next_id' = [next_id EXCEPT !["outputs"] = @ + RLen(m.outputs)]
           /\ msg' = [msg EXCEPT !["outputs"] =
                [batch_id |-> m.batch_id, blocks |-> m.blocks, inputs |-> m.inputs,
                 pending_queries |-> m.pending_queries]]
    /\ pc' = [pc EXCEPT !["outputs"] = "send"]
    /\ UNCHANGED << db, up, cached_max_height, pipeline, batch, batch_txs_total, batch_id,
                    bulk_mode, in_flight, mode, tx_open, main, ret, hist, budget, qb >>

\* InputsStage: consume, under the cache lock
InputsConsume ==
    /\ pc["inputs"] = "work"
    /\ LET m == msg["inputs"]
           c == consume(utxo_set_cache, OutPointsOf(m.inputs))
       IN  /\ utxo_set_cache' = c.entries
           /\ msg' = [msg EXCEPT !["inputs"] =
                [batch_id |-> m.batch_id, blocks |-> m.blocks, inputs |-> m.inputs,
                 pending_queries |-> m.pending_queries,
                 output_ids |-> c.found, missing |-> c.missing]]
    /\ pc' = [pc EXCEPT !["inputs"] = "fetch"]
    /\ UNCHANGED << db, up, cached_max_height, pipeline, batch, batch_txs_total, batch_id,
                    bulk_mode, in_flight, mode, tx_open, next_id, main, ret, hist, budget, qb >>

\* InputsStage: fetch_missing, the merge, the statements and their execution
InputsWork ==
    /\ pc["inputs"] = "fetch"
    /\ LET m == msg["inputs"]
           output_ids == Overlay(m.output_ids, fetch_missing(db, m.missing))
           queries == create_bulk_insert_inputs_query(m.inputs, output_ids)
           res == IF is_atomic(mode) THEN [ok |-> TRUE, db |-> db]
                  ELSE execute_bulk_insert_transcation(db, queries, Tag(m))
       IN  IF ~InputsIndexable(m.inputs, output_ids)
           THEN /\ Stop("inputs", "panic") /\ UNCHANGED db
           ELSE IF ~res.ok
           THEN /\ Stop("inputs", "err") /\ UNCHANGED db
           ELSE /\ db' = res.db
                /\ pc' = [pc EXCEPT !["inputs"] = "send"]
                /\ msg' = [msg EXCEPT !["inputs"] =
                     [batch_id |-> m.batch_id, blocks |-> m.blocks,
                      pending_queries |-> IF is_atomic(mode)
                                          THEN Append(m.pending_queries, queries)
                                          ELSE m.pending_queries]]
    /\ UNCHANGED << up, cached_max_height, pipeline, batch, batch_txs_total, batch_id,
                    bulk_mode, in_flight, mode, tx_open, next_id, utxo_set_cache, main, ret,
                    hist, budget, qb >>

\* pending_queries.into_iter().flatten()
RECURSIVE Flatten(_)
Flatten(qs) == IF qs = <<>> THEN <<>> ELSE Head(qs) \o Flatten(Tail(qs))

\* BlocksStage: the block statements, alone (bulk) or after every deferred
\* statement of the batch (atomic), in one transaction
BlocksWork ==
    /\ pc["blocks"] = "work"
    /\ LET m == msg["blocks"]
           queries == create_bulk_insert_blocks_query(m.blocks)
           res == IF is_atomic(mode)
                  THEN execute_bulk_insert_transcation(
                           db, Flatten(Append(m.pending_queries, queries)), Tag(m))
                  ELSE execute_bulk_insert_transcation(db, queries, Tag(m))
       IN  IF ~res.ok
           THEN /\ Stop("blocks", "err") /\ UNCHANGED db
           ELSE /\ db' = res.db
                /\ pc' = [pc EXCEPT !["blocks"] = "unreg"]
                /\ UNCHANGED msg
    /\ UNCHANGED << up, cached_max_height, pipeline, batch, batch_txs_total, batch_id,
                    bulk_mode, in_flight, mode, tx_open, next_id, utxo_set_cache, main, ret,
                    hist, budget, qb >>

\* BlocksStage: the heights of the batch leave the registry; assert!(!any_missing)
BlocksUnregister ==
    /\ pc["blocks"] = "unreg"
    /\ LET heights == BlockHeights(msg["blocks"].blocks)
       IN  /\ in_flight' = in_flight \ heights
           \* the second remove of a height within the batch finds nothing
           /\ IF heights \subseteq in_flight
                   /\ Cardinality(heights) = RLen(msg["blocks"].blocks)
              THEN Stop("blocks", "recv")
              ELSE Stop("blocks", "panic")
    /\ UNCHANGED << db, up, cached_max_height, pipeline, batch, batch_txs_total, batch_id,
                    bulk_mode, mode, tx_open, next_id, utxo_set_cache, main, ret,
                    hist, budget, qb >>

\* a query or a transaction of worker t fails (the connection, the backend):
\* the worker returns the error
DoesIo(t) ==
    CASE t = "txs" -> pc[t] \in { "start", "work" }
      [] t = "outputs" -> pc[t] \in { "start", "work" }
      [] t = "inputs" -> pc[t] = "fetch" /\ (mode = "Bulk" \/ msg[t].missing # <<>>)
      [] t = "blocks" -> pc[t] = "work"

Fault(t) ==
    /\ budget.faults > 0
    /\ DoesIo(t)
    /\ budget' = [budget EXCEPT !.faults = @ - 1]
    /\ Stop(t, "err")
    /\ UNCHANGED << db, up, cached_max_height, pipeline, batch, batch_txs_total, batch_id,
                    bulk_mode, in_flight, mode, tx_open, next_id, utxo_set_cache, main, ret,
                    hist, qb >>

(***************************************************************************)
(* The query builders on their own: a call of one builder on one slice.    *)
(* The slices have lengths around the multiples of the builder's cap, as   *)
(* one run or as two runs of different blocks.                             *)
(***************************************************************************)
QBFns == { "blocks", "txs", "outputs", "inputs", "fetch" }

QBCap(fn) == IF fn = "fetch" THEN FetchCap ELSE InsertCap

QBLengths(cap) ==
    { n \in UNION { (k * cap - QBWindow) .. (k * cap + QBWindow) : k \in 0 .. QBMult } : n >= 0 }

\* the k-th run (k = 0, 1) of a slice for builder fn, of n records
QBRun(fn, k, n) ==
    CASE fn = "blocks" -> [first |-> 2 * k, n |-> n, ord |-> "int"]
      [] fn = "txs" -> [height |-> k, first |-> 1, n |-> n, ord |-> "int"]
      [] fn = "outputs" -> [height |-> k, first |-> 1, n |-> n]
      [] fn = "inputs" -> [height |-> 2, oh |-> k, first |-> 1, n |-> n]
      [] fn = "fetch" -> [height |-> k, first |-> 1, n |-> n, ord |-> "int"]

QBSlices(fn, n) ==
    IF n = 0 THEN { <<>> }
    ELSE { << QBRun(fn, 0, n) >> }
            \cup (IF n >= 2 THEN { << QBRun(fn, 0, 1), QBRun(fn, 1, n - 1) >> } ELSE {})

\* the map a builder indexes: every key of the slice, under consecutive ids
QBTxIds(slice) == TxIds({}, slice, PG_STARTING_ID + 1)
QBOutputs(slice) == UtxoInsertAll({}, OutPointsOf(slice), PG_STARTING_ID + 1)

QBCall(fn, slice) ==
    CASE fn = "blocks" -> create_bulk_insert_blocks_query(slice)
      [] fn = "txs" -> create_bulk_insert_txs_query(slice)
      [] fn = "outputs" -> create_bulk_insert_outputs_query(slice, QBTxIds(slice))
      [] fn = "inputs" -> create_bulk_insert_inputs_query(slice, QBOutputs(slice))
      [] fn = "fetch" -> crate_fetch_outputs_query(slice)

QBuild ==
    /\ \E fn \in QBFns : \E n \in QBLengths(QBCap(fn)) : \E slice \in QBSlices(fn, n) :
          qb' = [fn |-> fn, slice |-> slice, out |-> QBCall(fn, slice)]
    /\ UNCHANGED storeVars

(***************************************************************************)
(* The cache on its own: inserts of runs of outpoints, and calls of        *)
(* consume with a request of up to MaxRequest runs, which may repeat or    *)
(* overlap.  qb records the last call of consume: the request (slice),     *)
(* the cache before it and what it returned (out).                         *)
(***************************************************************************)
CacheRuns ==
    { r \in { [height |-> h, first |-> i, n |-> n] :
                h \in 0 .. MaxCacheHeight, i \in 1 .. MaxCachePos, n \in 1 .. MaxCachePos } :
        r.first + r.n - 1 <= MaxCachePos }
CacheIds == { PG_STARTING_ID + 1, PG_STARTING_ID + 1 + 2 * MaxCachePos }

CacheRequests ==
    UNION { [ 1 .. k -> CacheRuns ] : k \in 0 .. MaxRequest }

\* utxo_lock.insert(out_point, id, value) for the outpoints of a run
CacheInsert ==
    /\ \E run \in CacheRuns : \E id \in CacheIds :
          utxo_set_cache' = MapInsert(utxo_set_cache, run, id)
    /\ qb' = [fn |-> "none", slice |-> <<>>, out |-> <<>>]
    /\ UNCHANGED << db, up, cached_max_height, pipeline, batch, batch_txs_total, batch_id,
                    bulk_mode, in_flight, mode, tx_open, pc, msg, next_id, main, ret,
                    hist, budget >>

\* utxo_lock.consume(points)
CacheConsume ==
    /\ \E points \in CacheRequests :
          LET r == consume(utxo_set_cache, points)
          IN  /\ utxo_set_cache' = r.entries
              /\ qb' = [fn |-> "consume", slice |-> points, out |-> r,
                        before |-> utxo_set_cache]
    /\ UNCHANGED << db, up, cached_max_height, pipeline, batch, batch_txs_total, batch_id,
                    bulk_mode, in_flight, mode, tx_open, pc, msg, next_id, main, ret,
                    hist, budget >>

(***************************************************************************)
(* Specifications.  The steps of the workers and the steps that complete a *)
(* call are the same in each; the specifications differ in the calls the   *)
(* driver makes and in the blocks it inserts.                              *)
(***************************************************************************)
\* the steps of a batch through the four stages
Ingest ==
    \/ SendToTxs
    \/ ReturnOk
    \/ \E t \in { "txs", "outputs" } : Start(t)
    \/ \E t \in { "outputs", "inputs", "blocks" } : Recv(t)
    \/ TxWork
    \/ OutputsWork
    \/ OutputsCache
    \/ InputsConsume
    \/ InputsWork
    \/ BlocksWork
    \/ BlocksUnregister

\* the steps of stop_workers and of the calls that end with it
Shutdown ==
    \/ FlushWorkers
    \/ Join
    \/ AfterJoin
    \/ \E t \in WorkerSet : RecvClosed(t)

\* a backend error in a worker, and what the other threads see of it
Failure ==
    \/ \E t \in WorkerSet : Fault(t)
    \/ \E t \in { "txs", "outputs", "inputs" } : SendClosed(t)
    \/ SendDisconnected

\* Spec: one process ingesting small blocks in increasing height order, in bulk
\* and in atomic mode, with backend errors, a crash and a drop
SmallInfos == { b \in BlockInfos : b.ntx = 1 }

Next ==
    \/ New
    \/ Crash
    \/ \E info \in SmallInfos : info.height > hist.hi /\ Insert(info)
    \/ Flush
    \/ mode_bulk
    \/ mode_fresh
    \/ mode_normal("mode_normal", NoHeight)
    \/ DropStore
    \/ Ingest
    \/ Shutdown
    \/ Failure

Init == InitWith(1, MaxFaults)

Spec == Init /\ [][Next]_vars

\* SpecApi: one process and every DataStore call, the blocks in any order
ApiInfos ==
    { b \in BlockInfos : b.valid /\ b.spend = NoHeight /\ b.ntx \in { 1, FlushThreshold }
                            /\ b.height <= MaxApiHeight }

NextApi ==
    \/ New
    \/ \E info \in ApiInfos : Insert(info)
    \/ Flush
    \/ get_max_height
    \/ \E h \in 0 .. MaxApiHeight : get_hash_by_height(h)
    \/ \E h \in 0 .. MaxApiHeight : mode_normal("reorg_at_height", h)
    \/ GetHashQuery
    \/ Ingest
    \/ Shutdown

SpecApi == InitWith(1, 0) /\ [][NextApi]_vars

\* SpecRecovery: bulk ingestion in increasing height order, crashes and restarts
RecoveryInfos ==
    { b \in BlockInfos : b.valid /\ b.ntx \in { 1, WipeWindow + 1 }
                            /\ b.height <= MaxRecoveryHeight }

NextRecovery ==
    \/ New
    \/ Crash
    \/ \E info \in RecoveryInfos : info.height > hist.hi /\ Insert(info)
    \/ Flush
    \/ Ingest

SpecRecovery == InitWith(MaxRestarts + 1, 0) /\ [][NextRecovery]_vars

\* SpecRegistry: bulk ingestion, without backend errors, of blocks among which
\* there are blocks of competing branches
RegistryInfos ==
    { b \in BlockInfos : b.valid /\ b.spend = NoHeight /\ b.ntx = 1
                            /\ b.height <= MaxRegistryHeight }

RECURSIVE SentBlocks(_)
SentBlocks(sent) ==
    IF sent = <<>> THEN 0 ELSE Len(Head(sent).parsed) + SentBlocks(Tail(sent))

NextRegistry ==
    \/ New
    \/ \E info \in RegistryInfos : Insert(info)
    \/ \E info \in RegistryInfos :
          /\ Len(batch) + SentBlocks(hist.sent) < MaxRegistryBlocks
          /\ InsertFork(info)
    \/ Flush
    \/ Ingest

SpecRegistry == InitWith(1, 0) /\ [][NextRegistry]_vars

\* SpecDrain: ingestion without backend errors, the pipeline dropped by
\* mode_normal and by the drop of the store.  Every worker is a thread of its
\* own and the joining thread is running, so a step of a worker or of the join
\* that stays possible is taken.  BlocksStage's transaction is possible exactly
\* when the worker is at "work" and always leaves it: its fairness is that the
\* worker is again and again elsewhere.
DrainInfos == { b \in SmallInfos : b.valid }

NextDrain ==
    \/ New
    \/ \E info \in DrainInfos : info.height > hist.hi /\ Insert(info)
    \/ Flush
    \/ mode_normal("mode_normal", NoHeight)
    \/ DropStore
    \/ Ingest
    \/ Shutdown

WorkersFair ==
    /\ WF_vars(SendToTxs)
    /\ \A t \in { "txs", "outputs" } : WF_vars(Start(t))
    /\ \A t \in { "outputs", "inputs", "blocks" } : WF_vars(Recv(t))
    /\ WF_vars(TxWork)
    /\ WF_vars(OutputsWork)
    /\ WF_vars(OutputsCache)
    /\ WF_vars(InputsConsume)
    /\ WF_vars(InputsWork)
    /\ []<>(pc["blocks"] # "work")
    /\ WF_vars(BlocksUnregister)

SpecDrain ==
    InitWith(1, 0) /\ [][NextDrain]_vars /\ WorkersFair /\ WF_vars(Shutdown)

\* SpecReorg: blocks ingested in bulk mode, then reorg_at_height, a crash and a
\* restart
ReorgInfos == { b \in ApiInfos : b.ntx = 1 }

NextReorg ==
    \/ New
    \/ Crash
    \/ \E info \in ReorgInfos : bulk_mode /\ info.height > hist.hi /\ Insert(info)
    \/ Flush
    \/ \E h \in 0 .. MaxApiHeight : mode_normal("reorg_at_height", h)
    \/ Ingest
    \/ Shutdown

SpecReorg == InitWith(MaxRestarts + 1, 0) /\ [][NextReorg]_vars

\* SpecFail: ingestion with a backend error in a worker, the pipeline dropped by
\* mode_normal and by the drop of the store.  The threads run as in SpecDrain,
\* and a send or a recv on a disconnected channel returns.
FailInfos == { b \in SmallInfos : b.valid /\ b.height <= MaxApiHeight }

NextFail ==
    \/ New
    \/ \E info \in FailInfos : info.height > hist.hi /\ Insert(info)
    \/ Flush
    \/ mode_normal("mode_normal", NoHeight)
    \/ DropStore
    \/ Ingest
    \/ Shutdown
    \/ Failure

SpecFail ==
    /\ InitWith(1, MaxFaults) /\ [][NextFail]_vars
    /\ WorkersFair /\ WF_vars(Shutdown)
    /\ \A t \in { "txs", "outputs", "inputs" } : WF_vars(SendClosed(t))
    /\ WF_vars(SendDisconnected)

\* SpecQB: calls of the query builders
NextQB == QBuild

SpecQB == InitWith(0, 0) /\ [][NextQB]_vars

\* SpecCache: calls of the cache
NextCache ==
    \/ CacheInsert
    \/ CacheConsume

SpecCache == InitWith(0, 0) /\ [][NextCache]_vars

(***************************************************************************)
(* Properties of the pipeline.                                             *)
(***************************************************************************)
\* the rows of a table at a height, and the rows a (process, batch) wrote
RECURSIVE CountAt(_, _)
CountAt(tbl, h) ==
    IF tbl = <<>> THEN 0
    ELSE (IF Head(tbl).height = h THEN Head(tbl).n ELSE 0) + CountAt(Tail(tbl), h)

RECURSIVE CountOf(_, _)
CountOf(tbl, g) ==
    IF tbl = <<>> THEN 0
    ELSE (IF Head(tbl).g = g THEN Head(tbl).n ELSE 0) + CountOf(Tail(tbl), g)

\* every tx, output and input row of the parsed block p is committed
Complete(p) ==
    /\ CountAt(db.txs, p.block.first) = RLen(p.txs)
    /\ CountAt(db.outputs, p.block.first) = RLen(p.outputs)
    /\ CountAt(db.inputs, p.block.first) = RLen(p.inputs)

\* the parsed blocks of the batches this process handed to the pipeline
Dispatched ==
    UNION { { hist.sent[s].parsed[k] : k \in 1 .. Len(hist.sent[s].parsed) } :
            s \in 1 .. Len(hist.sent) }

\* C1: with blocks inserted in increasing height order, whenever a block row of
\* height H is committed, every tx, output and input row of every dispatched
\* block of height <= H is committed: the block rows of a batch are written last.
C1_Durability ==
    hist.mono =>
        \A H \in BlockHeights(db.blocks) : \A p \in Dispatched :
            p.block.first <= H => Complete(p)

\* a block is committed while a later batch stands between its stage commits
C1_Witness ==
    /\ hist.mono
    /\ \E H \in BlockHeights(db.blocks) : \E p \in Dispatched :
          /\ p.block.first > H
          /\ CountAt(db.txs, p.block.first) > 0
          /\ CountAt(db.outputs, p.block.first) = 0
    /\ \E H \in BlockHeights(db.blocks) : \E p \in Dispatched :
          p.block.first = H /\ p.inputs # <<>>

\* the batches handed to an atomic pipeline, with the rows each is to write
AtomicBatches == { s \in 1 .. Len(hist.sent) : hist.sent[s].mode = "Atomic" }

Written(s, t) == CountOf(db[t], [e |-> hist.epoch, b |-> hist.sent[s].batch_id])

Expected(s, t) ==
    IF t = "blocks" THEN Len(hist.sent[s].parsed) ELSE RLen(Concat(hist.sent[s].parsed, t))

\* C2: of a batch handed to an atomic pipeline, either every row is committed, in
\* all four tables, or none is, in every state.
C2_AtomicAllOrNone ==
    \A s \in AtomicBatches :
        \/ \A t \in Tables : Written(s, t) = 0
        \/ \A t \in Tables : Written(s, t) = Expected(s, t)

\* an atomic batch with rows for all four tables is committed, and another one
\* has left nothing
C2_Witness ==
    /\ \E s \in AtomicBatches : \A t \in Tables : Written(s, t) = Expected(s, t) /\ Written(s, t) > 0
    /\ \E s \in AtomicBatches : \A t \in Tables : Written(s, t) = 0

(***************************************************************************)
(* Properties of recovery.                                                 *)
(***************************************************************************)
\* the highest height of a committed block row (NoHeight when there is none)
RECURSIVE HighestCommitted(_)
HighestCommitted(blocks) ==
    IF blocks = <<>> THEN NoHeight
    ELSE Max(Head(blocks).first + Head(blocks).n - 1, HighestCommitted(Tail(blocks)))

\* a process that started on the tables an earlier one left, before its first insert
Recovered == up /\ hist.epoch > 1 /\ hist.seen = {}

\* C3: after a crash at any point of bulk ingestion and a restart, no tx, output
\* or input row above the highest committed block is left, and every row left
\* is of a batch whose block rows are committed.
C3_CrashRecovery ==
    Recovered =>
        \A t \in { "txs", "outputs", "inputs" } : \A i \in 1 .. Len(db[t]) :
            /\ db[t][i].height <= HighestCommitted(db.blocks)
            /\ \E j \in 1 .. Len(db.blocks) : db.blocks[j].g = db[t][i].g

\* C10: on the tables a crash leaves, the recovery truncator run twice leaves
\* what it leaves run once.
C10_WipeIdempotent ==
    ~up => wipe_inconsistent_data(wipe_inconsistent_data(db)) = wipe_inconsistent_data(db)

\* a crash left more orphan rows than one pass of the truncator deletes
C10_Witness ==
    /\ ~up
    /\ db.blocks # <<>>
    /\ RLen(db.txs) - RLen(wipe_inconsistent_data(db).txs) > WipeWindow
    /\ RLen(db.outputs) - RLen(wipe_inconsistent_data(db).outputs) > WipeWindow

(***************************************************************************)
(* Properties of the DataStore calls.                                      *)
(***************************************************************************)
\* C4: in bulk mode, get_hash_by_height(h) of a height this process inserted
\* returns the hash of that block, in the byte order it was inserted in.
C4_RoundTrip ==
    (/\ up /\ main.op = "idle" /\ bulk_mode /\ mode = "Bulk"
     /\ ret.op = "get_hash_by_height" /\ ret.arg \in hist.seen)
        => (ret.ok /\ ret.height = ret.arg /\ ret.ord = "int")

\* the block rows are in increasing height order by id
HeightsIncreaseWithId(blocks) ==
    \A i, j \in 1 .. Len(blocks) :
        blocks[i].id < blocks[j].id => blocks[i].first + blocks[i].n - 1 < blocks[j].first

\* C5: when the block rows were committed in increasing height order,
\* get_max_height returns the highest committed height (None when no block row is
\* committed) and sets the cached max height to it.
C5_MaxHeightInOrder ==
    [][ (get_max_height /\ HeightsIncreaseWithId(db.blocks)) =>
            /\ ret'.ok
            /\ ret'.height = HighestCommitted(db.blocks)
            /\ cached_max_height' = HighestCommitted(db.blocks) ]_vars

\* get_max_height returned 1 with the blocks 0 and 1 committed in this order
C5_Witness ==
    /\ ret.op = "get_max_height" /\ ret.height = 1 /\ cached_max_height = 1
    /\ Len(db.blocks) = 2 /\ HeightsIncreaseWithId(db.blocks)

\* C5 as stated: ... for every order in which the blocks were committed.
C5_MaxHeightAnyOrder ==
    [][ get_max_height =>
            /\ ret'.ok
            /\ ret'.height = HighestCommitted(db.blocks)
            /\ cached_max_height' = HighestCommitted(db.blocks) ]_vars

\* C6: reorg_at_height(h) on committed blocks 0..N, h <= N, returns success and
\* leaves max height h - 1, no row of height >= h and every row below h.
C6_Reorg ==
    [][ (/\ AfterJoin /\ main.op = "reorg_at_height" /\ in_flight = {}
         /\ db.blocks # <<>>
         /\ BlockHeights(db.blocks) = 0 .. HighestCommitted(db.blocks)
         /\ main.h <= HighestCommitted(db.blocks))
            => /\ ret'.op = "reorg_at_height" /\ ret'.ok
               /\ HighestCommitted(db'.blocks) = main.h - 1
               /\ \A t \in Tables : db'[t] = DeleteFrom(db[t], main.h) ]_vars

\* C7: an insert that brings the count of accumulated transactions above 100,000
\* takes the whole batch out of the accumulator and offers it to the pipeline; up
\* to 100,000, 100,000 itself included, the block is accumulated and nothing is sent.
C7_FlushAboveThreshold ==
    [][ \A info \in ApiInfos : Insert(info) =>
            IF batch_txs_total + info.ntx > FlushThreshold
            THEN /\ batch' = <<>>
                 /\ main'.op = "insert" /\ main'.at = "send"
                 /\ Len(main'.m.parsed) = Len(batch) + 1
            ELSE /\ batch' = Append(batch, info)
                 /\ main' = main ]_vars

\* the accumulator held exactly 100,000 transactions, and the next insert sent
\* the two blocks
C7_Witness ==
    /\ main.op = "insert" /\ main.at = "send"
    /\ batch_txs_total = FlushThreshold + 1
    /\ Len(main.m.parsed) = 2
    /\ batch = <<>>

\* C7 as stated: an insert that brings the count to exactly 100,000 leaves the
\* accumulator empty.
C7_FlushAtThreshold ==
    [][ \A info \in ApiInfos :
            (Insert(info) /\ batch_txs_total + info.ntx = FlushThreshold) => batch' = <<>> ]_vars

(***************************************************************************)
(* Properties of the query builders.                                       *)
(***************************************************************************)
\* the VALUES tuples a builder formats for a slice, unsplit
QBRows(fn, slice) ==
    CASE fn = "blocks" -> BlockRows(slice)
      [] fn = "txs" -> TxRows(slice)
      [] fn = "outputs" -> OutputRows(slice, QBTxIds(slice))
      [] fn = "inputs" -> InputRows(slice, QBOutputs(slice))
      [] fn = "fetch" -> FetchRows(slice)

\* run b continues run a: the records of a followed by those of b are one run
Continues(a, b) ==
    /\ DOMAIN a = DOMAIN b
    /\ \A f \in DOMAIN a \ { "n" } :
          b[f] = IF f \in { "first", "tx_id", "output_id", "id" } THEN a[f] + a.n ELSE a[f]

\* the one sequence of runs, none continuing the one before it, that stands for
\* the records of rows
RECURSIVE Merge(_)
Merge(rows) ==
    IF Len(rows) <= 1 THEN rows
    ELSE IF Continues(rows[1], rows[2])
    THEN Merge(<< [rows[1] EXCEPT !.n = @ + rows[2].n] >> \o SubSeq(rows, 3, Len(rows)))
    ELSE << rows[1] >> \o Merge(Tail(rows))

RECURSIVE RowsOf(_)
RowsOf(stmts) == IF stmts = <<>> THEN <<>> ELSE Head(stmts).rows \o RowsOf(Tail(stmts))

\* C8: every builder, on a non-empty slice of n records, emits statements of 1 to
\* cap rows each whose rows, in emission order, are the records of the slice in
\* input order; one statement when n <= cap and two when n = cap + 1.
C8_Splitting ==
    (qb.fn # "none" /\ qb.slice # <<>>) =>
        LET n == RLen(qb.slice)
            cap == QBCap(qb.fn)
        IN  /\ \A i \in 1 .. Len(qb.out) :
                    /\ 1 <= RLen(qb.out[i].rows)
                    /\ RLen(qb.out[i].rows) <= cap
            /\ Merge(RowsOf(qb.out)) = Merge(QBRows(qb.fn, qb.slice))
            /\ RLen(RowsOf(qb.out)) = n
            /\ n <= cap => Len(qb.out) = 1
            /\ n = cap + 1 => Len(qb.out) = 2

\* a slice of cap + 1 blocks in two runs went through the blocks builder
C8_Witness ==
    /\ qb.fn = "blocks"
    /\ RLen(qb.slice) = InsertCap + 1
    /\ Len(qb.slice) = 2
    /\ Len(qb.out) = 2

\* C9: every builder returns no statement for an empty slice.
C9_EmptySliceNoStatement ==
    (qb.fn # "none" /\ qb.slice = <<>>) => qb.out = <<>>

(***************************************************************************)
(* Properties of failures, shutdown and modes.                             *)
(***************************************************************************)
\* C11: an insert or flush whose batch could not be handed to the pipeline,
\* because a stage had terminated, returns an error, not Ok.
C11_FailStop ==
    [][ (/\ ReturnOk
         /\ hist.sent # <<>>
         /\ ~hist.sent[Len(hist.sent)].delivered
         /\ hist.sent[Len(hist.sent)].batch_id + 1 = batch_id)
            => ~ret'.ok ]_vars

\* C12: when a worker returned an error, the call that dropped or restarted the
\* pipeline gets that error.
C12_JoinPropagates ==
    [][ (AfterJoin /\ main.op # "drop" /\ in_flight = {}
         /\ \E t \in WorkerSet : pc[t] = "err")
            => ~ret'.ok ]_vars

\* C14: when the pipeline has been dropped and its four workers joined, the
\* registry is empty (the assertion of stop_workers holds).
C14_Quiescence ==
    main.at = "joined" => in_flight = {}

\* C15: between calls, the running pipeline has the mode of the bulk_mode flag.
C15_ModeFollowsFlag ==
    (up /\ main.op = "idle" /\ pipeline = "Some") =>
        mode = (IF bulk_mode THEN "Bulk" ELSE "Atomic")

\* C13: when fetch_missing returns Ok, the map it returns has an entry for every
\* outpoint of `missing`.
C13_FetchComplete ==
    pc["inputs"] = "fetch" =>
        LET missing == msg["inputs"].missing
            out == fetch_missing(db, missing)
        IN  \A i \in 1 .. Len(missing) :
                RunInMap(out, missing[i].height, missing[i].first, missing[i].n)

\* C16: when a block of the accumulated batch fails to parse, flush_batch adds no
\* height to the registry, offers no message to the pipeline and leaves the batch
\* id as it was.
C16_NoPartialDispatch ==
    [][ (/\ main.op = "idle"
         /\ main'.op \in { "insert", "flush", "mode_normal", "reorg_at_height" }
         /\ batch' = <<>>
         /\ \E i \in 1 .. Len(batch) : ~batch[i].valid)
            => (/\ in_flight' = in_flight
                /\ batch_id' = batch_id
                /\ main'.at = "flushed" /\ main'.m = NoMsg
                /\ hist'.sent = hist.sent
                /\ msg' = msg) ]_vars

\* a flush has failed on a parse error: the batch is gone, its count is not reset
C16_Witness ==
    /\ main.op = "flush" /\ main.at = "flushed"
    /\ batch = <<>> /\ batch_txs_total > 0
    /\ batch_id = 0 /\ in_flight = {} /\ hist.sent = <<>>

\* C17: at the top of each batch, in TxStage and in OutputsStage, the cached next
\* id equals the next id read from the backend (the assert_eq holds).
C17_NoSequenceDrift ==
    /\ pc["txs"] = "work" => next_id["txs"] = read_next_tx_id(db).id
    /\ pc["outputs"] = "work" => next_id["outputs"] = read_next_output_id(db).id

(***************************************************************************)
(* Properties of identifiers and of order.                                 *)
(***************************************************************************)
RowSet(tbl) == { tbl[i] : i \in 1 .. Len(tbl) }

\* the ids of the rows of a table increase in insertion order, and follow one
\* another without a gap within the rows of one batch
IdsInOrder(tbl) ==
    \A i \in 1 .. Len(tbl) - 1 :
        /\ LastId(tbl[i]) < tbl[i + 1].id
        /\ tbl[i].g = tbl[i + 1].g => tbl[i + 1].id = LastId(tbl[i]) + 1

\* C18: the id a stage predicted for a row is the id the backend gave it: the
\* tx_id written with an output is the id of its transaction's row, a cached
\* output id is the id of the output's row, the output_id written with an input
\* is the id of the row of the output it spends; the ids of txs and of outputs
\* are consecutive within a batch and increase from batch to batch.
C18_PositionalIds ==
    /\ \A o \in RowSet(db.outputs) :
           \E t \in RowSet(db.txs) :
               /\ t.g = o.g /\ t.height = o.height
               /\ t.first <= o.first /\ o.first + o.n <= t.first + t.n
               /\ o.tx_id = t.id + (o.first - t.first)
    /\ \A c \in utxo_set_cache :
           \A o \in RowSet(db.outputs) :
               (/\ o.g.e = hist.epoch /\ o.height = c.height
                /\ o.first <= c.first /\ c.first < o.first + o.n)
                   => c.id = o.id + (c.first - o.first)
    /\ \A i \in RowSet(db.inputs) :
           \E o \in RowSet(db.outputs) :
               /\ o.height = i.height - 1 /\ o.first = 1
               /\ i.output_id = o.id
    /\ IdsInOrder(db.txs)
    /\ IdsInOrder(db.outputs)

\* one process has written outputs in bulk mode and, after a restart of its
\* pipeline, in atomic mode, and an input that spends one of them
C18_Witness ==
    /\ db.inputs # <<>>
    /\ \E o1, o2 \in RowSet(db.outputs) :
       \E s1, s2 \in 1 .. Len(hist.sent) :
           /\ o1.g.e = hist.epoch /\ o2.g.e = hist.epoch
           /\ o1.g.b = hist.sent[s1].batch_id /\ hist.sent[s1].mode = "Bulk"
           /\ o2.g.b = hist.sent[s2].batch_id /\ hist.sent[s2].mode = "Atomic"

StrictlyIncreasing(ids) == \A i, j \in 1 .. Len(ids) : i < j => ids[i] < ids[j]

\* the batch ids of the sends TxStage took, in the order of the sends
RECURSIVE Delivered(_)
Delivered(sent) ==
    IF sent = <<>> THEN <<>>
    ELSE IF Head(sent).delivered THEN << Head(sent).batch_id >> \o Delivered(Tail(sent))
    ELSE Delivered(Tail(sent))

\* the batch ids under which this process committed block rows, in row order
RECURSIVE Committed(_)
Committed(blocks) ==
    IF blocks = <<>> THEN <<>>
    ELSE IF Head(blocks).g.e = hist.epoch
    THEN << Head(blocks).g.b >> \o Committed(Tail(blocks))
    ELSE Committed(Tail(blocks))

\* C19: the batch ids handed to the pipeline increase with every dispatch; TxStage
\* receives the delivered batches in that order, every later stage receives
\* batches its upstream received, in increasing order of id, and BlocksStage
\* commits in that order.
C19_DispatchOrder ==
    /\ StrictlyIncreasing([ s \in 1 .. Len(hist.sent) |-> hist.sent[s].batch_id ])
    /\ hist.done["txs"] = Delivered(hist.sent)
    /\ \A t \in WorkerSet \ { "txs" } :
           /\ StrictlyIncreasing(hist.done[t])
           /\ \A i \in 1 .. Len(hist.done[t]) :
                  \E j \in 1 .. Len(hist.done[Upstream(t)]) :
                      hist.done[Upstream(t)][j] = hist.done[t][i]
    /\ \A i, j \in 1 .. Len(Committed(db.blocks)) :
           i < j => Committed(db.blocks)[i] <= Committed(db.blocks)[j]
    /\ up => \A i \in 1 .. Len(Committed(db.blocks)) :
                 \E j \in 1 .. Len(hist.done["blocks"]) :
                     hist.done["blocks"][j] = Committed(db.blocks)[i]

\* two batches have gone through the four stages, and both are committed
C19_Witness ==
    /\ Len(hist.done["blocks"]) >= 2
    /\ \E i, j \in 1 .. Len(Committed(db.blocks)) :
           Committed(db.blocks)[i] < Committed(db.blocks)[j]

(***************************************************************************)
(* Properties of the cache.                                                *)
(***************************************************************************)
CacheKeys == (0 .. MaxCacheHeight) \X (1 .. MaxCachePos)

\* the outpoints of a sequence of runs
KeysOf(points) ==
    UNION { { << points[i].height, k >> :
                k \in points[i].first .. (points[i].first + points[i].n - 1) } :
            i \in 1 .. Len(points) }

\* the maps a and b agree at the key k: both without it, or both with the same id
SameAt(a, b, k) ==
    /\ HasKey(a, k[1], k[2]) <=> HasKey(b, k[1], k[2])
    /\ HasKey(a, k[1], k[2]) => Lookup(a, k[1], k[2]) = Lookup(b, k[1], k[2])

\* C20: consume partitions its request: every requested outpoint is in found or
\* in missing; an outpoint is in found exactly when it was requested and in the
\* cache, with the entry the cache held; no requested outpoint stays in the
\* cache; every entry not requested stays as it was.
C20_ConsumePartition ==
    qb.fn = "consume" =>
        LET before == qb.before
            found == qb.out.found
            missing == KeysOf(qb.out.missing)
            after == qb.out.entries
            requested == KeysOf(qb.slice)
        IN  /\ utxo_set_cache = after
            /\ missing \subseteq requested
            /\ \A k \in requested : HasKey(found, k[1], k[2]) \/ k \in missing
            /\ \A k \in CacheKeys :
                   /\ HasKey(found, k[1], k[2])
                          <=> (k \in requested /\ HasKey(before, k[1], k[2]))
                   /\ HasKey(found, k[1], k[2])
                          => Lookup(found, k[1], k[2]) = Lookup(before, k[1], k[2])
                   /\ k \in requested => ~HasKey(after, k[1], k[2])
                   /\ k \notin requested => SameAt(after, before, k)

\* a call found one outpoint, missed another, left an entry it was not asked for,
\* and was asked for one outpoint twice
C20_Witness ==
    /\ qb.fn = "consume"
    /\ qb.out.found # {} /\ qb.out.missing # <<>> /\ qb.out.entries # {}
    /\ \E k \in KeysOf(qb.slice) :
           HasKey(qb.out.found, k[1], k[2]) /\ k \in KeysOf(qb.out.missing)

(***************************************************************************)
(* Properties of input resolution.                                         *)
(***************************************************************************)
\* id is the id of a row of outputs for the outpoint (h, i)
IsOutputRowId(d, h, i, id) ==
    \E o \in RowSet(d.outputs) :
        /\ o.height = h /\ o.first <= i /\ i < o.first + o.n
        /\ id = o.id + (i - o.first)

HasOutputRow(d, h, i) ==
    \E o \in RowSet(d.outputs) : o.height = h /\ o.first <= i /\ i < o.first + o.n

\* C21: the output id InputsStage resolves for an input is the id of the output
\* row of the input's outpoint, whether it came from the cache or from the
\* fetch-outputs query, and every input row written carries such an id.
C21_InputResolution ==
    /\ pc["inputs"] = "fetch" =>
           LET m == msg["inputs"]
               fetched == fetch_missing(db, m.missing)
           IN  \A i \in 1 .. Len(m.inputs) :
                   LET h == m.inputs[i].oh
                       k == m.inputs[i].first
                   IN  /\ (HasKey(m.output_ids, h, k) /\ HasOutputRow(db, h, k))
                              => IsOutputRowId(db, h, k, Lookup(m.output_ids, h, k))
                       /\ HasKey(fetched, h, k)
                              => IsOutputRowId(db, h, k, Lookup(fetched, h, k))
    /\ \A r \in RowSet(db.inputs) : IsOutputRowId(db, r.height - 1, 1, r.output_id)

\* one batch holds an input resolved from the cache and an input whose output
\* was committed before the pipeline started and is fetched from the backend
C21_Witness ==
    /\ pc["inputs"] = "fetch"
    /\ msg["inputs"].output_ids # {}
    /\ msg["inputs"].missing # <<>>
    /\ \A i \in 1 .. Len(msg["inputs"].missing) :
           HasKey(fetch_missing(db, msg["inputs"].missing),
                  msg["inputs"].missing[i].height, msg["inputs"].missing[i].first)

(***************************************************************************)
(* Properties of the registry.                                             *)
(***************************************************************************)
\* the batch of the s-th send has its block rows in the backend
BatchCommitted(s) ==
    CountOf(db.blocks, [e |-> hist.epoch, b |-> hist.sent[s].batch_id]) > 0

\* C22: the registry holds every height of a batch that was dispatched and is
\* not committed, and when BlocksStage has committed a batch every height of
\* that batch is in the registry (the assertion after the commit holds).
C22_RegistryLifecycle ==
    /\ up => \A s \in 1 .. Len(hist.sent) :
                 (hist.sent[s].delivered /\ ~BatchCommitted(s))
                     => BlockHeights(BlocksOf(hist.sent[s].parsed)) \subseteq in_flight
    /\ main.at = "send" => BlockHeights(BlocksOf(main.m.parsed)) \subseteq in_flight
    /\ pc["blocks"] = "unreg" =>
           /\ BlockHeights(msg["blocks"].blocks) \subseteq in_flight
           /\ Cardinality(BlockHeights(msg["blocks"].blocks)) = RLen(msg["blocks"].blocks)
    /\ pc["blocks"] # "panic"

(***************************************************************************)
(* Properties of shutdown.                                                 *)
(***************************************************************************)
StageFailed == \E t \in WorkerSet : pc[t] \in { "err", "panic" }

\* every worker has returned Ok and every batch handed over is committed
Drained ==
    /\ main.at = "joined"
    /\ \A t \in WorkerSet : pc[t] = "ok"
    /\ \A s \in 1 .. Len(hist.sent) : hist.sent[s].delivered /\ BatchCommitted(s)

\* C23: once the pipeline is dropped, unless a stage fails, every batch handed
\* to it gets committed and the four workers return; a worker returns only with
\* its receiver closed and nothing left in it, and the joins are over only when
\* the four workers have terminated.
C23_ShutdownDrains ==
    /\ (main.at = "join") ~> (Drained \/ StageFailed)
    /\ [](main.at = "joined" => \A t \in WorkerSet : Terminated(t))
    /\ [](\A t \in WorkerSet :
             pc[t] = "ok" => /\ msg[t] = NoMsg
                             /\ IF t = "txs" THEN ~tx_open ELSE Terminated(Upstream(t)))

\* mode_normal has dropped the pipeline and joined the workers, and the batches
\* it had been given are committed
C23_Witness ==
    /\ Drained
    /\ main.op = "mode_normal"
    /\ Len(hist.sent) >= 2

(***************************************************************************)
(* Properties of reorg_at_height.                                          *)
(***************************************************************************)
\* no table of d holds a row of height h or above
NoRowFrom(d, h) == \A t \in Tables : d[t] = DeleteFrom(d[t], h)

\* C24: when the process is killed after reorg_at_height(h) has sent its
\* statements (the block rows first) and before any other call, the tables the
\* recovery truncator leaves at the restart hold no row of height h or above.
C24_ReorgThenRestart ==
    [][ (Crash /\ ret.op = "reorg_at_height")
            => NoRowFrom(wipe_inconsistent_data(db'), ret.arg) ]_vars

(***************************************************************************)
(* Properties of the accumulator.                                          *)
(***************************************************************************)
RECURSIVE TxsOf(_)
TxsOf(b) == IF b = <<>> THEN 0 ELSE Head(b).ntx + TxsOf(Tail(b))

\* C25: between calls, batch_txs_total is the number of transactions of the
\* blocks in the accumulator (0 when it is empty).
C25_AccumulatorCount ==
    (up /\ main.op = "idle") => batch_txs_total = TxsOf(batch)

(***************************************************************************)
(* Properties of termination after a failure.                              *)
(***************************************************************************)
\* the thread of worker t has ended (with the process, when that is gone)
Ended(t) == pc[t] \in { "ok", "err", "panic", "none" }

\* the stages after t
After(t) ==
    CASE t = "txs" -> { "outputs", "inputs", "blocks" }
      [] t = "outputs" -> { "inputs", "blocks" }
      [] t = "inputs" -> { "blocks" }
      [] t = "blocks" -> {}

\* C26: when a stage has returned an error, every stage after it ends, the stage
\* before it ends once it sends, the send of flush_batch returns, and the joins
\* of a dropped pipeline come to an end.
C26_NoDeadlockOnFailure ==
    /\ \A t \in { "txs", "outputs", "inputs" } :
           (pc[t] = "err") ~> (\A u \in After(t) : Ended(u))
    /\ \A t \in { "outputs", "inputs", "blocks" } :
           (pc[t] = "err" /\ pc[Upstream(t)] = "send") ~> Ended(Upstream(t))
    /\ (main.at = "send") ~> (main.at # "send")
    /\ (main.at = "join") ~> (main.at # "join")

\* BlocksStage returned an error with a batch in the pipeline, InputsStage ended
\* on its send, and the pipeline was dropped and joined
C26_Witness ==
    /\ pc["blocks"] = "err" /\ pc["inputs"] = "err"
    /\ pc["outputs"] = "ok" /\ pc["txs"] = "ok"
    /\ main.at = "joined"
    /\ in_flight # {}

====
